---- MODULE Spec2Model ----
(***************************************************************************)
(* Model of the sales-metrics engine of basic_agentic_rag:                 *)
(*   src/my_agent/tools/calculate_metrics.py  (calculate_metrics and its   *)
(*   four calculators), over the `sales` table created and filled by       *)
(*   src/db/init_db.py.                                                    *)
(*                                                                         *)
(* Number representation.  The code computes in binary floating point;     *)
(* the model computes the same expressions exactly, in fixed point:        *)
(*   - a monetary amount is an integer number of mills (1/1000 of a unit), *)
(*     so 150000 is 150.00 and 4 is 0.004;                                 *)
(*   - round(x, 2) of an amount is Round2(x): the nearest multiple of 10   *)
(*     mills;                                                              *)
(*   - round(n / d * 100, 2) is a percentage in hundredths of a percent    *)
(*     (Divide100(n, d)), so 10000 is 100.00 %.                            *)
(* Python's None is the empty tuple <<>> and a present value v is <<v>>.   *)
(***************************************************************************)
EXTENDS Integers, Sequences, FiniteSets, Bags, TLC

\* sales:   the rows of the sales table
\* table:   whether the store can be read ("ok") or the sales table is missing
\* request: the arguments of the call in progress
\* reads:   the outcomes of the store reads the call has made so far
\* result:  the envelope the call returned
\* last:    the request and the result of the call before, on the same table
\* chunking: the arguments and the locals of the chunk_text call in progress
VARIABLES sales, table, request, reads, result, last, chunking

vars == <<sales, table, request, reads, result, last, chunking>>

\* No call is in progress: the arguments a call would carry, all absent
\* (None is the empty tuple). `invalid` is the set of arguments whose raw value
\* cannot be coerced to the declared type.
NoRequest ==
    [metric_type |-> "none", year |-> 0, period |-> "monthly",
     period_number |-> <<>>, forecast_values |-> <<>>, compare_year |-> <<>>,
     invalid |-> {}]

\* No result is held.
NoResult == [status |-> "none"]

\* No earlier call is remembered.
NoLast == [called |-> FALSE]

\* chunk_text is not running.
NoChunking == [pc |-> "idle"]

\* ------------------------------------------------------------------ bounds

\* Largest number of rows the sales table holds in the model.
MaxRecords == 3

\* Longest text chunk_text is given, in characters.
MaxTextLen == 4

\* Most iterations of the loop of chunk_text the model follows: more than any
\* call that ends needs.
MaxIterations == MaxTextLen + 2

Years == {2024, 2025}

\* Months a row may carry: 1 and 2 lie in quarter 1, 4 in quarter 2, and month 3
\* never has data (a gap in the monthly sequence).
Months == {1, 2, 4}

\* Period keys a forecast map may carry.
ForecastKeys == {1, 2}

\* Values of period_number a request may carry (besides None).
RequestPeriods == 0..4

Categories == {"Electronics"}

\* Categories and months of the rows under category_breakdown calls: months 1
\* and 4 are also quarters 1 and 2, and no row lies in month 2 or quarter 3.
BreakdownCategories == {"Electronics", "Clothing", "Home"}

BreakdownMonths == {1, 4}

\* Amounts of the rows, in mills: 0, 0.006 and 150.00.
Amounts == {0, 6, 150000}

\* Values of a forecast map, in mills: 0, 0.004 and 150.00.
ForecastAmounts == {0, 4, 150000}

\* ------------------------------------------------------------- Python values

None == <<>>

Some(v) == <<v>>

\* Truth value of an Optional[int] in `if x` / `x if x else y`: None and 0 are false.
Truthy(x) == x # None /\ x[1] # 0

\* dict.get(k, default)
Get(d, k, default) == IF k \in DOMAIN d THEN d[k] ELSE default

RECURSIVE SortedSeq(_)
\* sorted(S) for a set of integers: ascending.
SortedSeq(S) ==
    IF S = {} THEN <<>>
    ELSE LET m == CHOOSE x \in S : \A y \in S : x <= y
         IN  <<m>> \o SortedSeq(S \ {m})

RECURSIVE SumSeq(_)
\* sum(seq) of a sequence of integers.
SumSeq(s) == IF s = <<>> THEN 0 ELSE Head(s) + SumSeq(Tail(s))

Range(s) == {s[i] : i \in DOMAIN s}

\* Round-half-even quotient n / d for d > 0 (round() on the exact quotient).
RoundDivPos(n, d) ==
    LET q == n \div d
        r == n - q * d
    IN  IF 2 * r < d THEN q
        ELSE IF 2 * r > d THEN q + 1
        ELSE IF q % 2 = 0 THEN q ELSE q + 1

\* Round-half-even quotient n / d for d # 0.
RoundDiv(n, d) == IF d > 0 THEN RoundDivPos(n, d) ELSE RoundDivPos(-n, -d)

\* round(x, 2) of an amount in mills: the nearest multiple of 10 mills.
Round2(x) == 10 * RoundDiv(x, 10)

\* The outcome of evaluating an expression: a value, or a raised exception.
Value(v) == [raised |-> FALSE, value |-> v]

Raise(e) == [raised |-> TRUE, value |-> 0, exception |-> e]

\* Round-half-even of n * 10000 / d for d > 0, by long division (two decimal
\* digits at a time) so that no intermediate product leaves 32 bits.
Pct2Pos(n, d) ==
    LET q1 == n \div d
        r1 == n - q1 * d
        q2 == (r1 * 100) \div d
        r2 == r1 * 100 - q2 * d
        q3 == (r2 * 100) \div d
        r3 == r2 * 100 - q3 * d
        q  == q1 * 10000 + q2 * 100 + q3
    IN  IF 2 * r3 < d THEN q
        ELSE IF 2 * r3 > d THEN q + 1
        ELSE IF q % 2 = 0 THEN q ELSE q + 1

\* round(n / d * 100, 2): raises ZeroDivisionError when d is 0.
Divide100(n, d) ==
    IF d = 0 THEN Raise("float division by zero")
    ELSE Value(IF d > 0 THEN Pct2Pos(n, d) ELSE Pct2Pos(-n, -d))

\* ------------------------------------------------------------------- store

\* The rows of the sales table with a year in Y (id and date carry no information
\* the queries read).
SalesOf(Y) == [year : Y, month : Months, category : Categories, amount : Amounts]

SaleRecords == SalesOf(Years)

RECURSIVE SumAmounts(_, _)
\* SUM(amount) over the rows of bag B that are in the set S.
SumAmounts(S, B) ==
    IF S = {} THEN 0
    ELSE LET r == CHOOSE x \in S : TRUE
         IN  r.amount * CopiesIn(r, B) + SumAmounts(S \ {r}, B)

\* Mutant: the quarter without the offset, month / 3 + 1.
PeriodKeyNoOffset(month, period) ==
    IF period = "quarterly" THEN month \div 3 + 1 ELSE month

\* The period key of a month: the month, or ((month - 1) / 3 + 1) for quarterly.
PeriodKey(month, period) ==
    IF period = "quarterly" THEN (month - 1) \div 3 + 1 ELSE month

\* SELECT period, SUM(amount) FROM sales WHERE year = ? GROUP BY period
get_sales_by_period(db, year, period) ==
    LET rows == {r \in BagToSet(db) : r.year = year}
        keys == {PeriodKey(r.month, period) : r \in rows}
    IN  [k \in keys |-> SumAmounts({r \in rows : PeriodKey(r.month, period) = k}, db)]

\* SELECT DISTINCT year FROM sales ORDER BY year
get_years_with_data(db) == SortedSeq({r.year : r \in BagToSet(db)})

\* ------------------------------------------------------ forecast_comparison

PeriodLabel(period) == IF period = "quarterly" THEN "quarter" ELSE "month"

\* Mutant: the union forgets the keys of the second map.
PeriodsToCheckFirstOnly(period_number, a, b) ==
    IF Truthy(period_number) THEN <<period_number[1]>>
    ELSE SortedSeq(DOMAIN a)

\* periods_to_check of _forecast_comparison and _yoy_comparison.
PeriodsToCheck(period_number, a, b) ==
    IF Truthy(period_number) THEN <<period_number[1]>>
    ELSE SortedSeq(DOMAIN a \cup DOMAIN b)

\* Mutant: the division without its zero guard.
VariancePctUnguarded(variance, forecast) == Divide100(variance, forecast)

\* variance_pct = (variance / forecast * 100) if forecast else 0
VariancePct(variance, forecast) ==
    IF forecast # 0 THEN Divide100(variance, forecast) ELSE Value(0)

\* Mutant: a zero variance counts as above the forecast.
ForecastStatusInclusive(variance) ==
    IF variance >= 0 THEN "above_forecast" ELSE "below_forecast"

\* status of a row, from the unrounded variance.
ForecastStatus(variance) ==
    IF variance > 0 THEN "above_forecast"
    ELSE IF variance < 0 THEN "below_forecast"
    ELSE "on_target"

\* One iteration of the loop over periods_to_check.
ForecastRow(p, period, actuals, forecast_values) ==
    LET forecast == Get(forecast_values, p, 0)
        actual   == Get(actuals, p, 0)
        variance == actual - forecast
    IN  [period_label  |-> PeriodLabel(period),
         period_number |-> p,
         actual        |-> Round2(actual),
         forecast      |-> Round2(forecast),
         variance      |-> Round2(variance),
         variance_pct  |-> VariancePct(variance, forecast),
         status        |-> ForecastStatus(variance)]

\* total_actual / total_forecast: sum(r["actual"] for r in results).
ForecastTotal(rows, field) == SumSeq([i \in DOMAIN rows |-> rows[i][field]])

ForecastSummary(rows) ==
    LET total_actual   == ForecastTotal(rows, "actual")
        total_forecast == ForecastTotal(rows, "forecast")
        total_variance == total_actual - total_forecast
    IN  [total_actual       |-> Round2(total_actual),
         total_forecast     |-> Round2(total_forecast),
         total_variance     |-> Round2(total_variance),
         total_variance_pct |-> IF total_forecast # 0
                                THEN Divide100(total_variance, total_forecast)
                                ELSE Value(0)]

\* Mutant: an error envelope that also carries an (empty) results list.
ErrorOutputWithResults(message) ==
    [status |-> "error", message |-> message, results |-> <<>>]

\* The error envelope.
ErrorOutput(message) == [status |-> "error", message |-> message]

\* Mutant: one missing year makes every requested year missing.
AvailabilityAllOrNothing(db, years_requested) ==
    LET available_years == Range(get_years_with_data(db))
        complete == \A i \in DOMAIN years_requested : years_requested[i] \in available_years
    IN  [data_available_for |-> IF complete THEN years_requested ELSE <<>>,
         data_missing_for   |-> IF complete THEN <<>> ELSE years_requested,
         note               |-> IF complete THEN None ELSE Some(years_requested)]

\* data_available_for / data_missing_for / note for the requested years.
Availability(db, years_requested) ==
    LET available_years == Range(get_years_with_data(db))
        missing == SelectSeq(years_requested, LAMBDA y : y \notin available_years)
    IN  [data_available_for |-> SelectSeq(years_requested, LAMBDA y : y \in available_years),
         data_missing_for   |-> missing,
         note               |-> IF missing # <<>> THEN Some(missing) ELSE None]

\* Rows whose percentage was computed without a raised exception, as returned.
Returned(rows, field) ==
    [i \in DOMAIN rows |-> [rows[i] EXCEPT ![field] = rows[i][field].value]]

AnyRaised(rows, field) == \E i \in DOMAIN rows : rows[i][field].raised

\* db is the table as the successive reads of the call see it: db[1] by the
\* first read, db[2] by the second (each read opens its own connection).
forecast_comparison(db, year, period, period_number, forecast_values) ==
    IF forecast_values = None \/ DOMAIN forecast_values[1] = {}
    THEN ErrorOutput("forecast_values is required for forecast_comparison")
    ELSE LET fv      == forecast_values[1]
             actuals == get_sales_by_period(db[1], year, period)
             periods == PeriodsToCheck(period_number, actuals, fv)
             rows    == [i \in DOMAIN periods |-> ForecastRow(periods[i], period, actuals, fv)]
             summary == ForecastSummary(Returned(rows, "variance_pct"))
             avail   == Availability(db[2], <<year>>)
         IN  IF AnyRaised(rows, "variance_pct") \/ summary.total_variance_pct.raised
             THEN ErrorOutput("float division by zero")
             ELSE [status  |-> "success",
                   year    |-> year,
                   period  |-> period,
                   results |-> Returned(rows, "variance_pct"),
                   summary |-> [summary EXCEPT !.total_variance_pct = summary.total_variance_pct.value],
                   data_available_for |-> avail.data_available_for,
                   data_missing_for   |-> avail.data_missing_for,
                   note               |-> avail.note]


\* ----------------------------------------------------------- yoy_comparison

RECURSIVE SumOver(_, _)
\* sum(d[k] for k in K)
SumOver(d, K) ==
    IF K = {} THEN 0
    ELSE LET k == CHOOSE x \in K : TRUE
         IN  d[k] + SumOver(d, K \ {k})

\* sum(d.values())
SumValues(d) == SumOver(d, DOMAIN d)

\* Mutant: the division without its zero guard.
ChangePctUnguarded(change, prev_val) == Divide100(change, prev_val)

\* change_pct = (change / prev_val * 100) if prev_val else 0
ChangePct(change, prev_val) ==
    IF prev_val # 0 THEN Divide100(change, prev_val) ELSE Value(0)

\* One iteration of the loop over periods_to_check.
YoYRow(p, period, current, previous) ==
    LET curr_val == Get(current, p, 0)
        prev_val == Get(previous, p, 0)
        change   == curr_val - prev_val
    IN  [period_label       |-> PeriodLabel(period),
         period_number      |-> p,
         current_year_value |-> Round2(curr_val),
         compare_year_value |-> Round2(prev_val),
         change             |-> Round2(change),
         change_pct         |-> ChangePct(change, prev_val)]

YoYSummary(current, previous) ==
    LET total_current  == SumValues(current)
        total_previous == SumValues(previous)
        total_change   == total_current - total_previous
    IN  [total_current    |-> Round2(total_current),
         total_compare    |-> Round2(total_previous),
         total_change     |-> Round2(total_change),
         total_change_pct |-> ChangePct(total_change, total_previous)]

yoy_comparison(db, year, period, period_number, compare_year) ==
    IF ~Truthy(compare_year)
    THEN ErrorOutput("compare_year is required for yoy_comparison")
    ELSE LET current  == get_sales_by_period(db[1], year, period)
             previous == get_sales_by_period(db[2], compare_year[1], period)
             periods  == PeriodsToCheck(period_number, current, previous)
             rows     == [i \in DOMAIN periods |-> YoYRow(periods[i], period, current, previous)]
             summary  == YoYSummary(current, previous)
             avail    == Availability(db[3], <<year, compare_year[1]>>)
         IN  IF AnyRaised(rows, "change_pct") \/ summary.total_change_pct.raised
             THEN ErrorOutput("float division by zero")
             ELSE [status       |-> "success",
                   current_year |-> year,
                   compare_year |-> compare_year[1],
                   period       |-> period,
                   results      |-> Returned(rows, "change_pct"),
                   summary      |-> [summary EXCEPT !.total_change_pct = summary.total_change_pct.value],
                   data_available_for |-> avail.data_available_for,
                   data_missing_for   |-> avail.data_missing_for,
                   note               |-> avail.note]

\* ------------------------------------------------------------------- growth

\* periods_to_report = [period_number] if period_number else sorted_periods
PeriodsToReport(period_number, sorted_periods) ==
    IF Truthy(period_number) THEN <<period_number[1]>> ELSE sorted_periods

\* Mutant: the previous integer period, sales.get(p - 1), instead of the previous
\* period with data.
GrowthPreviousInteger(by_period, sorted_periods, i) ==
    IF i > 1 /\ (sorted_periods[i] - 1) \in DOMAIN by_period
    THEN Some(by_period[sorted_periods[i] - 1])
    ELSE None

\* Mutant: without the `if i > 0` guard, where sorted_periods[-1] is the last period.
GrowthPreviousWraps(by_period, sorted_periods, i) ==
    Some(by_period[sorted_periods[IF i > 1 THEN i - 1 ELSE Len(sorted_periods)]])

\* previous = sales.get(sorted_periods[i - 1]) if i > 0 else None
\* (i counts from 1 here, from 0 in the code)
GrowthPrevious(by_period, sorted_periods, i) ==
    IF i > 1 THEN Some(by_period[sorted_periods[i - 1]]) ELSE None

\* Mutant: an undefined growth rate reported as 0.
GrowthPctZeroDefault(current, previous) ==
    IF Truthy(previous)
    THEN LET d == Divide100(current - previous[1], previous[1])
         IN  IF d.raised THEN d ELSE Value(Some(d.value))
    ELSE Value(Some(0))

\* growth_pct = ((current - previous) / previous * 100) if previous else None
GrowthPct(current, previous) ==
    IF Truthy(previous)
    THEN LET d == Divide100(current - previous[1], previous[1])
         IN  IF d.raised THEN d ELSE Value(Some(d.value))
    ELSE Value(None)

\* The body of the loop over sorted_periods for the period at index i.
GrowthRow(i, period, by_period, sorted_periods) ==
    LET p        == sorted_periods[i]
        current  == by_period[p]
        previous == GrowthPrevious(by_period, sorted_periods, i)
    IN  [period_label  |-> PeriodLabel(period),
         period_number |-> p,
         current       |-> Round2(current),
         previous      |-> IF previous # None THEN Some(Round2(previous[1])) ELSE None,
         growth_pct    |-> GrowthPct(current, previous)]

\* growth_rates and avg_growth, rounded for the summary.
GrowthAverage(rows) ==
    LET with_rate    == SelectSeq(rows, LAMBDA r : r.growth_pct # None)
        growth_rates == [i \in DOMAIN with_rate |-> with_rate[i].growth_pct[1]]
    IN  IF growth_rates # <<>>
        THEN Some(RoundDiv(SumSeq(growth_rates), Len(growth_rates)))
        ELSE None

growth(db, year, period, period_number) ==
    LET by_period      == get_sales_by_period(db[1], year, period)
        sorted_periods == SortedSeq(DOMAIN by_period)
        to_report      == Range(PeriodsToReport(period_number, sorted_periods))
        indexes        == SelectSeq([i \in DOMAIN sorted_periods |-> i],
                                    LAMBDA i : sorted_periods[i] \in to_report)
        rows           == [k \in DOMAIN indexes |->
                              GrowthRow(indexes[k], period, by_period, sorted_periods)]
        avail          == Availability(db[2], <<year>>)
    IN  IF AnyRaised(rows, "growth_pct")
        THEN ErrorOutput("float division by zero")
        ELSE [status  |-> "success",
              year    |-> year,
              period  |-> period,
              results |-> Returned(rows, "growth_pct"),
              summary |-> [average_growth_pct |-> GrowthAverage(Returned(rows, "growth_pct"))],
              data_available_for |-> avail.data_available_for,
              data_missing_for   |-> avail.data_missing_for,
              note               |-> avail.note]

\* ------------------------------------------------------- category_breakdown

\* SELECT category, SUM(amount) ... WHERE year = ? AND <period> = ? GROUP BY category
category_sums(db, year, period, period_number) ==
    LET rows == {r \in BagToSet(db) :
                    r.year = year /\ PeriodKey(r.month, period) = period_number}
        cats == {r.category : r \in rows}
    IN  [c \in cats |-> SumAmounts({r \in rows : r.category = c}, db)]

\* ORDER BY total DESC: every order of the categories with non-increasing totals
\* (the order of equal totals is left to the store).
CategoryOrders(sums) ==
    {s \in [1..Cardinality(DOMAIN sums) -> DOMAIN sums] :
        /\ \A i, j \in DOMAIN s : i # j => s[i] # s[j]
        /\ \A i, j \in DOMAIN s : i < j => sums[s[i]] >= sums[s[j]]}

MonthNames ==
    <<"January", "February", "March", "April", "May", "June",
      "July", "August", "September", "October", "November", "December">>

CategoryPeriodLabel(period, period_number) ==
    IF period = "quarterly" THEN <<"Q", period_number>>
    ELSE IF 1 <= period_number /\ period_number <= 12 THEN <<MonthNames[period_number]>>
    ELSE <<"Month ", period_number>>

\* Mutant: the division without its zero guard.
CategoryPctUnguarded(amount, total) == Divide100(amount, total)

\* pct = (amount / total * 100) if total else 0
CategoryPct(amount, total) ==
    IF total # 0 THEN Divide100(amount, total) ELSE Value(0)

\* Mutant: the year alone decides, as in the other three calculators.
CategoryHasDataYearOnly(available_years, year, rows) == year \in Range(available_years)

\* has_data = year in available_years and len(rows) > 0
CategoryHasData(available_years, year, rows) ==
    year \in Range(available_years) /\ Len(rows) > 0

\* `order` is the order in which the store returned the category rows.
category_breakdown(db, year, period, period_number, order) ==
    IF ~Truthy(period_number)
    THEN ErrorOutput("period_number is required for category_breakdown")
    ELSE LET sums  == category_sums(db[1], year, period, period_number[1])
             total == SumValues(sums)
             rows  == [i \in DOMAIN order |->
                          [category            |-> order[i],
                           amount              |-> Round2(sums[order[i]]),
                           percentage_of_total |-> CategoryPct(sums[order[i]], total)]]
             has_data == CategoryHasData(get_years_with_data(db[2]), year, order)
         IN  IF AnyRaised(rows, "percentage_of_total")
             THEN ErrorOutput("float division by zero")
             ELSE [status  |-> "success",
                   year    |-> year,
                   period  |-> CategoryPeriodLabel(period, period_number[1]),
                   results |-> Returned(rows, "percentage_of_total"),
                   summary |-> [total |-> Round2(total), category_count |-> Len(rows)],
                   data_available_for |-> IF has_data THEN <<year>> ELSE <<>>,
                   data_missing_for   |-> IF has_data THEN <<>> ELSE <<year>>,
                   note               |-> IF has_data THEN None ELSE Some(<<year>>)]

\* ------------------------------------------------------------ calculate_metrics

MetricTypes == {"forecast_comparison", "yoy_comparison", "growth", "category_breakdown"}

Periods == {"monthly", "quarterly"}

\* MetricsInput(...) accepts the arguments: every raw value is coercible and the
\* two Literal fields hold one of their values.
Validates(req) ==
    /\ req.invalid = {}
    /\ req.metric_type \in MetricTypes
    /\ req.period \in Periods

\* Mutant: an error line that does not say what was expected.
FieldErrorBare(field, expected) == [field |-> field, expected |-> {}]

\* One line of a validation error: the rejected field and, for a Literal field
\* ("Input should be 'a', 'b' or 'c'"), the values it accepts.
FieldError(field, expected) == [field |-> field, expected |-> expected]

\* str(e) of the error raised by MetricsInput(...): one line per rejected field.
ValidationMessage(req) ==
    {FieldError(f, {}) : f \in req.invalid}
    \cup (IF req.metric_type \notin MetricTypes
          THEN {FieldError("metric_type", MetricTypes)} ELSE {})
    \cup (IF req.period \notin Periods
          THEN {FieldError("period", Periods)} ELSE {})

\* Validation by MetricsInput, then the dispatch on metric_type; an exception
\* of the validation is returned as the error envelope.
calculate_metrics(db, req, order) ==
    IF ~Validates(req)
    THEN ErrorOutput(ValidationMessage(req))
    ELSE IF req.metric_type = "forecast_comparison"
    THEN forecast_comparison(db, req.year, req.period, req.period_number, req.forecast_values)
    ELSE IF req.metric_type = "yoy_comparison"
    THEN yoy_comparison(db, req.year, req.period, req.period_number, req.compare_year)
    ELSE IF req.metric_type = "growth"
    THEN growth(db, req.year, req.period, req.period_number)
    ELSE IF req.metric_type = "category_breakdown"
    THEN category_breakdown(db, req.year, req.period, req.period_number, order)
    ELSE ErrorOutput("Unknown metric_type. Use one of: forecast_comparison, yoy_comparison, growth, category_breakdown")

\* The check a calculator makes before its first read finds the parameter it
\* requires absent.
RequiredMissing(req) ==
    \/ /\ req.metric_type = "forecast_comparison"
       /\ (req.forecast_values = None \/ DOMAIN req.forecast_values[1] = {})
    \/ req.metric_type = "yoy_comparison" /\ ~Truthy(req.compare_year)
    \/ req.metric_type = "category_breakdown" /\ ~Truthy(req.period_number)

\* Mutant: _yoy_comparison tests compare_year after its first read.
ReadsNeededCheckLate(req) ==
    IF ~Validates(req) THEN 0
    ELSE IF req.metric_type = "yoy_comparison"
    THEN (IF ~Truthy(req.compare_year) THEN 1 ELSE 3)
    ELSE IF RequiredMissing(req) THEN 0
    ELSE 2

\* The number of store reads a call makes when none fails: none when the
\* request is rejected, else one or two aggregations and the years with data.
ReadsNeeded(req) ==
    IF ~Validates(req) \/ RequiredMissing(req) THEN 0
    ELSE IF req.metric_type = "yoy_comparison" THEN 3
    ELSE 2

\* ------------------------------------------------------------------ actions

Init ==
    /\ sales = EmptyBag
    /\ table = "ok"
    /\ request = NoRequest
    /\ reads = <<>>
    /\ result = NoResult
    /\ last = NoLast
    /\ chunking = NoChunking

\* INSERT INTO sales (date, year, month, category, amount) VALUES (...), while
\* no call is in progress. The table has changed: no earlier call is remembered.
InsertSale(r) ==
    /\ request = NoRequest
    /\ table = "ok"
    /\ BagCardinality(sales) < MaxRecords
    /\ sales' = sales (+) SetToBag({r})
    /\ last' = NoLast
    /\ UNCHANGED <<table, request, reads, result, chunking>>

\* The outcome of one store read, made on a connection of its own: the rows it
\* saw, after which conn.close() ran; or a failure (cursor.execute raised
\* sqlite3.OperationalError), which leaves the function before conn.close().
ReadOk(db) == [succeeded |-> TRUE, seen |-> db, connection |-> "closed"]

ReadFailed == [succeeded |-> FALSE, seen |-> EmptyBag, connection |-> "open"]

\* The tables the reads saw, in order.
Snapshots(rs) == [i \in DOMAIN rs |-> rs[i].seen]

\* Mutant: a store that returns equal totals in another order when asked again.
RowOrderUnstable(req, db) ==
    IF req.metric_type = "category_breakdown" /\ ReadsNeeded(req) > 0
    THEN LET orders == CategoryOrders(
                           category_sums(db[1], req.year, req.period, req.period_number[1]))
             first  == CHOOSE o \in orders : TRUE
         IN  IF last.called /\ orders # {first}
             THEN CHOOSE o \in orders : o # first
             ELSE first
    ELSE <<>>

\* The order in which the store returns the category rows of a
\* category_breakdown that reads db (the empty order for any other call): one
\* of the orders with non-increasing totals, the same whenever the same query
\* runs on the same table.
RowOrder(req, db) ==
    IF req.metric_type = "category_breakdown" /\ ReadsNeeded(req) > 0
    THEN CHOOSE o \in CategoryOrders(
             category_sums(db[1], req.year, req.period, req.period_number[1])) : TRUE
    ELSE <<>>

\* Forecast maps after the validator: {int(k): float(v)}.
ForecastMaps == UNION {[K -> ForecastAmounts] : K \in SUBSET ForecastKeys}

PeriodNumbers == {None} \cup {Some(p) : p \in RequestPeriods}

\* One call of calculate_metrics with request req, up to its return, while no
\* other process touches the store: every read sees the same table, and the
\* first read fails when the table is missing.
Call(req) ==
    /\ request = NoRequest
    /\ request' = req
    /\ IF ReadsNeeded(req) > 0 /\ table # "ok"
       THEN /\ reads' = <<ReadFailed>>
            /\ result' = ErrorOutput("no such table: sales")
       ELSE /\ reads' = [i \in 1..ReadsNeeded(req) |-> ReadOk(sales)]
            /\ result' = calculate_metrics(<<sales, sales, sales>>, req,
                                            RowOrder(req, <<sales>>))
    /\ UNCHANGED <<sales, table, last, chunking>>

CallForecastComparison ==
    \E year \in Years, period \in Periods, period_number \in PeriodNumbers,
       forecast_values \in {None} \cup {Some(f) : f \in ForecastMaps} :
        Call([metric_type |-> "forecast_comparison", year |-> year, period |-> period,
              period_number |-> period_number, forecast_values |-> forecast_values,
              compare_year |-> None,
              invalid |-> {}])

CallYoYComparison ==
    \E year \in Years, period \in Periods, period_number \in PeriodNumbers,
       compare_year \in {None, Some(0)} \cup {Some(y) : y \in Years} :
        Call([metric_type |-> "yoy_comparison", year |-> year, period |-> period,
              period_number |-> period_number, forecast_values |-> None,
              compare_year |-> compare_year,
              invalid |-> {}])

CallGrowth ==
    \E year \in Years, period \in Periods, period_number \in PeriodNumbers :
        Call([metric_type |-> "growth", year |-> year, period |-> period,
              period_number |-> period_number, forecast_values |-> None,
              compare_year |-> None,
              invalid |-> {}])

CallCategoryBreakdown ==
    \E year \in Years, period \in Periods, period_number \in PeriodNumbers :
        Call([metric_type |-> "category_breakdown", year |-> year, period |-> period,
              period_number |-> period_number, forecast_values |-> None,
              compare_year |-> None,
              invalid |-> {}])

CallUnknownMetric ==
    \E year \in Years :
        Call([metric_type |-> "profit", year |-> year, period |-> "monthly",
              period_number |-> None, forecast_values |-> None, compare_year |-> None,
              invalid |-> {}])

\* The caller takes the returned envelope; the tool keeps nothing of the call.
Return ==
    /\ request # NoRequest
    /\ result # NoResult
    /\ last = NoLast
    /\ request' = NoRequest
    /\ reads' = <<>>
    /\ result' = NoResult
    /\ UNCHANGED <<sales, table, last, chunking>>

\* ---------------------------------------------- a call next to other processes
\* The same call, one store read at a time, while other processes write to the
\* store or rebuild it.

\* Rows another process may insert while a call runs.
WriterSales == [year : Years, month : {1}, category : Categories, amount : {150000}]

\* The requests of the calls that run step by step: each kind with and without
\* the parameter it requires, an unknown kind, and raw values that cannot be
\* coerced (year, period_number, compare_year, a key or value of forecast_values).
StepRequests ==
    [metric_type : {"forecast_comparison"}, year : Years, period : {"monthly"},
     period_number : {None}, forecast_values : {None, Some(1 :> 150000)},
     compare_year : {None}, invalid : {{}}]
    \cup
    [metric_type : {"yoy_comparison"}, year : Years, period : {"monthly"},
     period_number : {None}, forecast_values : {None},
     compare_year : {None} \cup {Some(y) : y \in Years}, invalid : {{}}]
    \cup
    [metric_type : {"growth"}, year : Years, period : {"monthly"},
     period_number : {None}, forecast_values : {None},
     compare_year : {None}, invalid : {{}}]
    \cup
    [metric_type : {"category_breakdown"}, year : Years, period : {"monthly"},
     period_number : {None, Some(1)}, forecast_values : {None},
     compare_year : {None}, invalid : {{}}]
    \cup
    [metric_type : {"profit"}, year : Years, period : {"monthly"},
     period_number : {None}, forecast_values : {None},
     compare_year : {None}, invalid : {{}}]
    \cup
    [metric_type : MetricTypes, year : {2025}, period : {"monthly"},
     period_number : {Some(1)}, forecast_values : {Some(1 :> 150000)},
     compare_year : {Some(2024)},
     invalid : {{"year"}, {"period_number"}, {"compare_year"}, {"forecast_values"}}]

\* Another process inserts a row and commits, between two reads of a call or
\* while none runs.
WriterInsert(r) ==
    /\ result = NoResult
    /\ table = "ok"
    /\ BagCardinality(sales) < MaxRecords
    /\ sales' = sales (+) SetToBag({r})
    /\ last' = NoLast
    /\ UNCHANGED <<table, request, reads, result, chunking>>

\* init_database removes the database file: until the table is created again
\* a connection opens an empty database without a sales table.
DropStore ==
    /\ result = NoResult
    /\ table = "ok"
    /\ sales' = EmptyBag
    /\ table' = "missing"
    /\ last' = NoLast
    /\ UNCHANGED <<request, reads, result, chunking>>

\* init_database creates the (empty) sales table.
CreateTable ==
    /\ table = "missing"
    /\ table' = "ok"
    /\ UNCHANGED <<sales, request, reads, result, last, chunking>>

\* calculate_metrics is entered: the arguments are validated and the required
\* parameter of the kind is checked; a rejected request returns at once.
Begin(req) ==
    /\ request = NoRequest
    /\ request' = req
    /\ reads' = <<>>
    /\ result' = IF ReadsNeeded(req) = 0
                 THEN calculate_metrics(<<>>, req, <<>>)
                 ELSE NoResult
    /\ UNCHANGED <<sales, table, last, chunking>>

\* Mutant: a failed read counts as a read of an empty table.
ReadSwallowingFailure ==
    /\ request # NoRequest
    /\ result = NoResult
    /\ LET rs == Append(reads, IF table = "ok" THEN ReadOk(sales) ELSE ReadFailed)
       IN  /\ reads' = rs
           /\ IF Len(rs) < ReadsNeeded(request)
              THEN result' = NoResult
              ELSE result' = calculate_metrics(Snapshots(rs), request,
                                               RowOrder(request, Snapshots(rs)))
    /\ UNCHANGED <<sales, table, request, last, chunking>>

\* The next store read of the running call (connect, execute, fetchall, close).
\* A failed read raises, and calculate_metrics returns the error envelope; the
\* last read is followed by the rest of the calculator, up to the return.
Read ==
    /\ request # NoRequest
    /\ result = NoResult
    /\ IF table # "ok"
       THEN /\ reads' = Append(reads, ReadFailed)
            /\ result' = ErrorOutput("no such table: sales")
       ELSE LET rs == Append(reads, ReadOk(sales))
            IN  /\ reads' = rs
                /\ IF Len(rs) < ReadsNeeded(request)
                   THEN result' = NoResult
                   ELSE result' = calculate_metrics(Snapshots(rs), request,
                                                    RowOrder(request, Snapshots(rs)))
    /\ UNCHANGED <<sales, table, request, last, chunking>>

\* ------------------------------------------------------------- query_sales

\* The columns of the sales table.
SalesColumns == {"id", "date", "year", "month", "category", "amount"}

\* The queries a caller passes to query_sales: a SELECT of the four columns the
\* model keeps, in either case, a SELECT of a column the table does not have,
\* and a statement that is not a SELECT.
Queries ==
    [verb : {"SELECT", "select"}, columns : {<<"year", "month", "category", "amount">>}]
    \cup [verb : {"SELECT"}, columns : {<<"price">>}]
    \cup [verb : {"DELETE"}, columns : {<<>>}]

\* query.strip().upper() of the first word.
Upper(word) == IF word = "select" THEN "SELECT" ELSE word

\* The query runs: the table is there and has every column the query names.
Executes(query) == table = "ok" /\ Range(query.columns) \subseteq SalesColumns

\* One call of query_sales, up to its return: a statement that is not a SELECT
\* is refused before a connection is opened; a query that raises returns the
\* error envelope from the except branch; a query that runs returns its rows
\* after conn.close().
QuerySales(query) ==
    /\ request = NoRequest
    /\ request' = [query |-> query]
    /\ IF Upper(query.verb) # "SELECT"
       THEN /\ reads' = <<>>
            /\ result' = ErrorOutput("Only SELECT queries are allowed")
       ELSE IF ~Executes(query)
       THEN /\ reads' = <<ReadFailed>>
            /\ result' = ErrorOutput(IF table = "ok" THEN "no such column"
                                                     ELSE "no such table: sales")
       ELSE /\ reads' = <<ReadOk(sales)>>
            /\ result' = [status  |-> "success",
                          columns |-> query.columns,
                          results |-> sales]
    /\ UNCHANGED <<sales, table, last, chunking>>

\* --------------------------------------------------------------- chunk_text

\* A text is a sequence of characters: a letter or a blank.
Characters == {"a", " "}

Texts == UNION {[1..n -> Characters] : n \in 0..MaxTextLen}

\* Values of chunk_size and of overlap: every pair, whether overlap is below
\* chunk_size or not.
ChunkSizes == 0..3

Overlaps == 0..3

\* A slice bound as Python takes it: counted from the end when negative, and
\* clipped to 0..n.
SliceIndex(i, n) ==
    IF i < 0 THEN (IF i + n < 0 THEN 0 ELSE i + n)
    ELSE IF i > n THEN n ELSE i

\* text[start:end]
Slice(text, start, end) ==
    LET s == SliceIndex(start, Len(text))
        e == SliceIndex(end, Len(text))
    IN  IF s < e THEN SubSeq(text, s + 1, e) ELSE <<>>

RECURSIVE LStrip(_)
LStrip(s) == IF s # <<>> /\ Head(s) = " " THEN LStrip(Tail(s)) ELSE s

RECURSIVE RStrip(_)
RStrip(s) ==
    IF s # <<>> /\ s[Len(s)] = " " THEN RStrip(SubSeq(s, 1, Len(s) - 1)) ELSE s

\* str.strip()
Strip(s) == RStrip(LStrip(s))

\* Mutant: the next window starts past the end of this one.
NextStartSkipping(end, overlap) == end + overlap

\* start = end - overlap
NextStart(end, overlap) == end - overlap

\* chunk_text(text, chunk_size, overlap) is entered: chunks = [], start = 0.
\* `windows` keeps the start of every iteration made and `iterations` counts them.
ChunkText(text, chunk_size, overlap) ==
    /\ chunking = NoChunking
    /\ chunking' = [pc         |-> "loop",
                    text       |-> text,
                    start      |-> 0,
                    overlap    |-> overlap,
                    chunk_size |-> chunk_size,
                    chunks     |-> <<>>,
                    windows    |-> {},
                    iterations |-> 0]
    /\ UNCHANGED <<sales, table, request, reads, result, last>>

\* One iteration of the loop: the test start < len(text) holds.
ChunkStep ==
    /\ chunking.pc = "loop"
    /\ chunking.start < Len(chunking.text)
    /\ chunking.iterations < MaxIterations
    /\ LET end   == chunking.start + chunking.chunk_size
           chunk == Strip(Slice(chunking.text, chunking.start, end))
       IN  chunking' =
               [chunking EXCEPT
                   !.chunks     = IF chunk # <<>> THEN Append(@, chunk) ELSE @,
                   !.windows    = @ \cup {chunking.start},
                   !.start      = NextStart(end, chunking.overlap),
                   !.iterations = @ + 1]
    /\ UNCHANGED <<sales, table, request, reads, result, last>>

\* The test start < len(text) fails: the loop is left and chunks is returned.
ChunkLoopExit ==
    /\ chunking.pc = "loop"
    /\ ~(chunking.start < Len(chunking.text))
    /\ chunking' = [chunking EXCEPT !.pc = "done"]
    /\ UNCHANGED <<sales, table, request, reads, result, last>>

\* The caller takes the chunks.
ChunkReturn ==
    /\ chunking.pc = "done"
    /\ chunking' = NoChunking
    /\ UNCHANGED <<sales, table, request, reads, result, last>>

Next ==
    \/ \E r \in SaleRecords : InsertSale(r)
    \/ CallForecastComparison
    \/ CallYoYComparison
    \/ CallGrowth
    \/ CallCategoryBreakdown
    \/ CallUnknownMetric
    \/ Return
    \/ \E r \in WriterSales : WriterInsert(r)
    \/ DropStore
    \/ CreateTable
    \/ \E req \in StepRequests : Begin(req)
    \/ Read
    \/ \E query \in Queries : QuerySales(query)
    \/ \E text \in Texts, chunk_size \in ChunkSizes, overlap \in Overlaps :
          ChunkText(text, chunk_size, overlap)
    \/ ChunkStep
    \/ ChunkLoopExit
    \/ ChunkReturn

Spec == Init /\ [][Next]_vars

\* Calls of chunk_text. A loop that can make its next iteration, or leave,
\* does so.
NextChunk ==
    \/ \E text \in Texts, chunk_size \in ChunkSizes, overlap \in Overlaps :
          ChunkText(text, chunk_size, overlap)
    \/ ChunkStep
    \/ ChunkLoopExit
    \/ ChunkReturn

SpecChunk ==
    Init /\ [][NextChunk]_vars /\ WF_vars(ChunkStep) /\ WF_vars(ChunkLoopExit)

\* Calls that run one read at a time next to a writer and to init_database.
NextConcurrent ==
    \/ \E r \in WriterSales : WriterInsert(r)
    \/ DropStore
    \/ CreateTable
    \/ \E req \in StepRequests : Begin(req)
    \/ Read
    \/ Return

SpecConcurrent == Init /\ [][NextConcurrent]_vars

\* Both tools, calculate_metrics one read at a time, next to a writer and to
\* init_database.
NextConnections ==
    \/ \E r \in WriterSales : WriterInsert(r)
    \/ DropStore
    \/ CreateTable
    \/ \E req \in StepRequests : Begin(req)
    \/ Read
    \/ \E query \in Queries : QuerySales(query)
    \/ Return

SpecConnections == Init /\ [][NextConnections]_vars

\* forecast_comparison calls over a table that holds rows of 2025 only (2024 is
\* then a year without data).
NextForecast ==
    \/ \E r \in SalesOf({2025}) : InsertSale(r)
    \/ CallForecastComparison
    \/ Return

SpecForecast == Init /\ [][NextForecast]_vars

\* yoy_comparison calls over a table that holds rows of both years.
NextYoY ==
    \/ \E r \in SaleRecords : InsertSale(r)
    \/ CallYoYComparison
    \/ Return

SpecYoY == Init /\ [][NextYoY]_vars

\* growth calls over a table that holds rows of 2025 only.
NextGrowth ==
    \/ \E r \in SalesOf({2025}) : InsertSale(r)
    \/ CallGrowth
    \/ Return

SpecGrowth == Init /\ [][NextGrowth]_vars

\* Rows of both years in months 1 and 4, of amount 0 or 150.00.
AvailabilitySales ==
    [year : Years, month : BreakdownMonths, category : Categories, amount : {0, 150000}]

\* Calls of the three calculators that report on the year alone, over a table
\* that holds rows of either year, both or none.
NextAvailability ==
    \/ \E r \in AvailabilitySales : InsertSale(r)
    \/ CallForecastComparison
    \/ CallYoYComparison
    \/ CallGrowth
    \/ Return

SpecAvailability == Init /\ [][NextAvailability]_vars

\* Calls of every kind, valid or not, over the same small table.
NextEnvelope ==
    \/ \E r \in AvailabilitySales : InsertSale(r)
    \/ CallForecastComparison
    \/ CallYoYComparison
    \/ CallGrowth
    \/ CallCategoryBreakdown
    \/ CallUnknownMetric
    \/ Return

SpecEnvelope == Init /\ [][NextEnvelope]_vars

\* The rows of 2025 in several categories.
BreakdownSales ==
    [year : {2025}, month : BreakdownMonths, category : BreakdownCategories, amount : Amounts]

\* The caller takes the returned envelope and keeps it next to the request.
ReturnRemembered ==
    /\ request # NoRequest
    /\ result # NoResult
    /\ last = NoLast
    /\ last' = [called |-> TRUE, request |-> request, result |-> result]
    /\ request' = NoRequest
    /\ reads' = <<>>
    /\ result' = NoResult
    /\ UNCHANGED <<sales, table, chunking>>

\* The caller repeats the call it remembers, with the same arguments.
CallAgain ==
    /\ last.called
    /\ Call(last.request)

\* The caller takes the envelope of the repeated call and forgets both.
ReturnCompared ==
    /\ request # NoRequest
    /\ result # NoResult
    /\ last.called
    /\ last' = NoLast
    /\ request' = NoRequest
    /\ reads' = <<>>
    /\ result' = NoResult
    /\ UNCHANGED <<sales, table, chunking>>

\* Rows of one month of 2025 in two categories.
RepeatSales ==
    [year : {2025}, month : {1}, category : {"Electronics", "Clothing"},
     amount : {6, 150000}]

\* Calls of every kind, each repeated once on the unchanged table.
NextRepeat ==
    \/ \E r \in RepeatSales : InsertSale(r)
    \/ last = NoLast /\ CallForecastComparison
    \/ last = NoLast /\ CallYoYComparison
    \/ last = NoLast /\ CallGrowth
    \/ last = NoLast /\ CallCategoryBreakdown
    \/ last = NoLast /\ CallUnknownMetric
    \/ ReturnRemembered
    \/ CallAgain
    \/ ReturnCompared

SpecRepeat == Init /\ [][NextRepeat]_vars

\* Rows of both years in every month of the year.
CalendarSales ==
    [year : Years, month : 1..12, category : Categories, amount : {150000}]

\* growth calls, which report the aggregation map period by period, over a
\* table with rows in any month.
NextCalendar ==
    \/ \E r \in CalendarSales : InsertSale(r)
    \/ CallGrowth
    \/ Return

SpecCalendar == Init /\ [][NextCalendar]_vars

\* category_breakdown calls over a table that holds rows of 2025 only, in
\* several categories.
NextBreakdown ==
    \/ \E r \in BreakdownSales : InsertSale(r)
    \/ CallCategoryBreakdown
    \/ Return

SpecBreakdown == Init /\ [][NextBreakdown]_vars

\* ------------------------------------------------------------------- claims
\* What the claims read: the table as it is, the request and the returned envelope.

Succeeded(kind) == request.metric_type = kind /\ result.status = "success"

\* The request carries a period filter: a period number the code takes as one
\* (`if period_number`: neither None nor 0).
Filtered == Truthy(request.period_number)

\* The period keys of year y that have at least one row, at the request's granularity.
StoredKeys(y) ==
    {PeriodKey(r.month, request.period) : r \in {x \in BagToSet(sales) : x.year = y}}

\* The unrounded sum of the rows of year y in period p (0 when there is none).
StoredSum(y, p) ==
    SumAmounts({r \in BagToSet(sales) :
                   r.year = y /\ PeriodKey(r.month, request.period) = p}, sales)

\* The unrounded forecast of period p (0 when the map has no entry).
ForecastOf(p) ==
    IF p \in DOMAIN request.forecast_values[1] THEN request.forecast_values[1][p] ELSE 0

\* The period numbers of the returned rows, in order.
RowPeriods == [i \in DOMAIN result.results |-> result.results[i].period_number]

StrictlyAscending(s) == \A i, j \in DOMAIN s : i < j => s[i] < s[j]

\* The percentage n / d * 100 rounded to 2 decimals, 0 when d is 0.
PctOrZero(n, d) == IF d = 0 THEN 0 ELSE Divide100(n, d).value

\* C1: in every successful forecast_comparison result the summary totals are the
\* sums of the unrounded per-period actual and forecast values of the emitted
\* periods, rounded once, and total_variance / total_variance_pct derive from
\* those unrounded sums.
C1_TotalsFromRawSums ==
    Succeeded("forecast_comparison") =>
        LET raw_actual   == SumSeq([i \in DOMAIN RowPeriods |-> StoredSum(request.year, RowPeriods[i])])
            raw_forecast == SumSeq([i \in DOMAIN RowPeriods |-> ForecastOf(RowPeriods[i])])
        IN  /\ result.summary.total_actual = Round2(raw_actual)
            /\ result.summary.total_forecast = Round2(raw_forecast)
            /\ result.summary.total_variance = Round2(raw_actual - raw_forecast)
            /\ result.summary.total_variance_pct = PctOrZero(raw_actual - raw_forecast, raw_forecast)

\* C5: a forecast_comparison without a period filter returns exactly one row for
\* each period in the union of the keys of the actuals and of the forecast map,
\* in ascending order, the side without an entry being 0; with a period filter
\* it returns exactly one row, for that period.
C5_ForecastRowsCoverUnion ==
    Succeeded("forecast_comparison") =>
        /\ Filtered => RowPeriods = <<request.period_number[1]>>
        /\ ~Filtered =>
              /\ StrictlyAscending(RowPeriods)
              /\ Range(RowPeriods) = StoredKeys(request.year) \cup DOMAIN request.forecast_values[1]
        /\ \A i \in DOMAIN result.results :
              /\ result.results[i].actual = Round2(StoredSum(request.year, RowPeriods[i]))
              /\ result.results[i].forecast = Round2(ForecastOf(RowPeriods[i]))

\* C5 witness: an unfiltered result with a period that only the forecast map has
\* and a period that only the actuals have.
C5_Witness ==
    /\ Succeeded("forecast_comparison")
    /\ ~Filtered
    /\ \E p \in Range(RowPeriods) :
          p \in DOMAIN request.forecast_values[1] /\ p \notin StoredKeys(request.year)
    /\ \E p \in Range(RowPeriods) :
          p \notin DOMAIN request.forecast_values[1] /\ p \in StoredKeys(request.year)
          /\ StoredSum(request.year, p) # 0

\* A forecast_comparison request that carries a (non-empty) forecast map.
ForecastGiven ==
    /\ request.metric_type = "forecast_comparison"
    /\ request.forecast_values # None
    /\ DOMAIN request.forecast_values[1] # {}

\* C6: every forecast_comparison with a forecast map returns status success (no
\* division fault), and in every row variance = actual - forecast and
\* variance_pct = 0 when the forecast of the period is 0 or absent.
C6_ZeroForecastGuard ==
    ForecastGiven =>
        /\ result.status = "success"
        /\ \A i \in DOMAIN result.results :
              LET p == RowPeriods[i]
              IN  /\ result.results[i].variance =
                        Round2(StoredSum(request.year, p) - ForecastOf(p))
                  /\ ForecastOf(p) = 0 => result.results[i].variance_pct = 0
                  /\ ForecastOf(p) # 0 =>
                        result.results[i].variance_pct =
                            Divide100(StoredSum(request.year, p) - ForecastOf(p), ForecastOf(p)).value

\* C6 witness: a row whose forecast is 0 (or absent) while the actual is not.
C6_Witness ==
    /\ ForecastGiven
    /\ result.status = "success"
    /\ \E i \in DOMAIN result.results :
          /\ ForecastOf(RowPeriods[i]) = 0
          /\ result.results[i].actual # 0
          /\ result.results[i].variance_pct = 0

\* C10 as stated: status follows the sign of the variance value of the same row.
C10_StatusFollowsRowVariance ==
    Succeeded("forecast_comparison") =>
        \A i \in DOMAIN result.results :
            LET row == result.results[i]
            IN  /\ row.status = "above_forecast" <=> row.variance > 0
                /\ row.status = "below_forecast" <=> row.variance < 0
                /\ row.status = "on_target" <=> row.variance = 0

\* C10 (amended): status follows the sign of the unrounded variance
\* actual - forecast of the row's period; the row's variance value is that
\* variance rounded to 2 decimals, so a positive (negative) row value implies
\* above_forecast (below_forecast) and on_target implies a row value of 0.
C10_StatusFollowsRawVariance ==
    Succeeded("forecast_comparison") =>
        \A i \in DOMAIN result.results :
            LET row == result.results[i]
                raw == StoredSum(request.year, RowPeriods[i]) - ForecastOf(RowPeriods[i])
            IN  /\ row.status = "above_forecast" <=> raw > 0
                /\ row.status = "below_forecast" <=> raw < 0
                /\ row.status = "on_target" <=> raw = 0
                /\ row.variance > 0 => row.status = "above_forecast"
                /\ row.variance < 0 => row.status = "below_forecast"
                /\ row.status = "on_target" => row.variance = 0

\* C10 witness: rows of all three statuses, one of them above_forecast with a
\* variance value of 0.
C10_Witness ==
    /\ Succeeded("forecast_comparison")
    /\ \E i \in DOMAIN result.results :
          result.results[i].status = "above_forecast" /\ result.results[i].variance = 0
    /\ \E i \in DOMAIN result.results :
          result.results[i].status = "below_forecast" /\ result.results[i].variance < 0
    /\ \E i \in DOMAIN result.results : result.results[i].status = "on_target"

\* The compare year of a yoy_comparison request that carries one.
CompareYear == request.compare_year[1]

\* C2: in every successful yoy_comparison result, with or without a period
\* filter, summary.total_change is the sum of the unrounded per-period changes
\* of the rows in results.
C2_TotalChangeIsSumOfRowChanges ==
    Succeeded("yoy_comparison") =>
        result.summary.total_change =
            Round2(SumSeq([i \in DOMAIN RowPeriods |->
                              StoredSum(request.year, RowPeriods[i])
                              - StoredSum(CompareYear, RowPeriods[i])]))

\* The unrounded total of year y over all its periods.
StoredTotal(y) == SumAmounts({r \in BagToSet(sales) : r.year = y}, sales)

\* C7: every yoy_comparison without a period filter (and with a compare year)
\* returns status success; its rows are the union of the period keys of the two
\* years in ascending order, a year without an entry counting 0, with
\* change = current - previous and change_pct = 0 when the compare-year value
\* is 0; the summary percentage is 0 when the compare-year total is 0.
C7_YoYRowsAndZeroGuard ==
    (request.metric_type = "yoy_comparison" /\ Truthy(request.compare_year) /\ ~Filtered) =>
        /\ result.status = "success"
        /\ StrictlyAscending(RowPeriods)
        /\ Range(RowPeriods) = StoredKeys(request.year) \cup StoredKeys(CompareYear)
        /\ \A i \in DOMAIN result.results :
              LET row  == result.results[i]
                  curr == StoredSum(request.year, RowPeriods[i])
                  prev == StoredSum(CompareYear, RowPeriods[i])
              IN  /\ row.current_year_value = Round2(curr)
                  /\ row.compare_year_value = Round2(prev)
                  /\ row.change = Round2(curr - prev)
                  /\ prev = 0 => row.change_pct = 0
                  /\ prev # 0 => row.change_pct = Divide100(curr - prev, prev).value
        /\ StoredTotal(CompareYear) = 0 => result.summary.total_change_pct = 0
        /\ StoredTotal(CompareYear) # 0 =>
              result.summary.total_change_pct =
                  Divide100(StoredTotal(request.year) - StoredTotal(CompareYear),
                            StoredTotal(CompareYear)).value

\* C7 witness: an unfiltered result over two different years with a period only
\* the current year has (compare value 0, change_pct 0), a period only the
\* compare year has, and a compare-year row of amount 0 against a non-zero one.
C7_Witness ==
    /\ Succeeded("yoy_comparison")
    /\ ~Filtered
    /\ request.year # CompareYear
    /\ \E i \in DOMAIN result.results :
          /\ RowPeriods[i] \notin StoredKeys(CompareYear)
          /\ result.results[i].change > 0
          /\ result.results[i].change_pct = 0
    /\ \E i \in DOMAIN result.results :
          /\ RowPeriods[i] \notin StoredKeys(request.year)
          /\ result.results[i].change < 0
          /\ result.results[i].change_pct = -10000

\* The sorted period keys of the requested year of a growth request.
GrowthKeys == SortedSeq(StoredKeys(request.year))

\* The greatest period with data below p, as a set (empty when p is the first).
PreviousKey(p) ==
    {q \in StoredKeys(request.year) :
        q < p /\ \A x \in StoredKeys(request.year) : x < p => x <= q}

\* previous and growth_pct of period p as the full series defines them.
SeriesPrevious(p) ==
    IF PreviousKey(p) = {} THEN None
    ELSE Some(StoredSum(request.year, CHOOSE q \in PreviousKey(p) : TRUE))

SeriesGrowth(p) ==
    IF SeriesPrevious(p) = None \/ SeriesPrevious(p) = Some(0) THEN None
    ELSE Some(Divide100(StoredSum(request.year, p) - SeriesPrevious(p)[1],
                        SeriesPrevious(p)[1]).value)

\* The average, rounded to 2 decimals, of the defined rates among `rates`
\* (a sequence of None / Some(rate)); None when there is none.
AverageOfDefined(rates) ==
    LET defined == SelectSeq(rates, LAMBDA g : g # None)
    IN  IF defined = <<>> THEN None
        ELSE Some(RoundDiv(SumSeq([i \in DOMAIN defined |-> defined[i][1]]), Len(defined)))

\* C3: in every growth result summary.average_growth_pct is the average of the
\* non-null growth percentages of the full (unfiltered) series of the year, also
\* under a period filter, and null exactly when the full series has none.
C3_AverageOverFullSeries ==
    Succeeded("growth") =>
        result.summary.average_growth_pct =
            AverageOfDefined([i \in DOMAIN GrowthKeys |-> SeriesGrowth(GrowthKeys[i])])

\* C4: a growth request filtered on a period p with data returns exactly one
\* row, for p, whose previous is the (rounded) sum of the greatest period with
\* data below p, null when p is the first period with data; filtered on a period
\* without data it returns no row.
C4_FilteredPreviousIsChronological ==
    (Succeeded("growth") /\ Filtered) =>
        LET p == request.period_number[1]
        IN  IF p \in StoredKeys(request.year)
            THEN /\ Len(result.results) = 1
                 /\ result.results[1].period_number = p
                 /\ result.results[1].current = Round2(StoredSum(request.year, p))
                 /\ result.results[1].previous =
                       (IF SeriesPrevious(p) = None THEN None
                        ELSE Some(Round2(SeriesPrevious(p)[1])))
            ELSE result.results = <<>>

\* C4 witness: a filtered request on a period p with data whose predecessor with
\* data is not p - 1 and differs from the sum of p itself.
C4_Witness ==
    /\ Succeeded("growth")
    /\ Filtered
    /\ Len(result.results) = 1
    /\ (request.period_number[1] - 1) \notin StoredKeys(request.year)
    /\ result.results[1].previous # None
    /\ result.results[1].previous # Some(result.results[1].current)
    /\ result.results[1].growth_pct # None

\* The average the summary reports excludes the null rates of the rows.
AverageExcludesNull ==
    result.summary.average_growth_pct =
        AverageOfDefined([i \in DOMAIN result.results |-> result.results[i].growth_pct])

\* C8 as stated: a row whose previous period sum is 0 has growth_pct null, a row
\* has growth_pct = 0 only when its current equals its non-zero previous, and
\* null rates are excluded from the average.
C8_ZeroGrowthOnlyWhenEqual ==
    Succeeded("growth") =>
        /\ \A i \in DOMAIN result.results :
              LET row == result.results[i]
              IN  /\ SeriesPrevious(RowPeriods[i]) = Some(0) => row.growth_pct = None
                  /\ row.growth_pct = Some(0) =>
                        /\ row.previous # None
                        /\ row.previous # Some(0)
                        /\ row.current = row.previous[1]
        /\ AverageExcludesNull

Abs(x) == IF x < 0 THEN -x ELSE x

\* C8 (amended): a row whose previous period sum is 0 has growth_pct null (as
\* has the first period), every other row has a number; a row has
\* growth_pct = 0 only when its previous is non-zero and the unrounded rate is
\* within 0.005 % of zero, which current # previous can meet; null rates are
\* excluded from the average.
C8_NullForZeroPrevious ==
    Succeeded("growth") =>
        /\ \A i \in DOMAIN result.results :
              LET row  == result.results[i]
                  prev == SeriesPrevious(RowPeriods[i])
                  curr == StoredSum(request.year, RowPeriods[i])
              IN  /\ row.growth_pct = None <=> (prev = None \/ prev = Some(0))
                  /\ row.growth_pct = Some(0) =>
                        /\ prev # None
                        /\ prev # Some(0)
                        /\ Abs(curr - prev[1]) * 20000 <= Abs(prev[1])
        /\ AverageExcludesNull

\* C8 witness: a result with a row after a period of sum 0 (rate null), a row
\* with a defined rate, and an average that is that one rate.
C8_Witness ==
    /\ Succeeded("growth")
    /\ \E i \in DOMAIN result.results :
          result.results[i].previous = Some(0) /\ result.results[i].growth_pct = None
    /\ \E i \in DOMAIN result.results :
          /\ result.results[i].growth_pct # None
          /\ result.summary.average_growth_pct = result.results[i].growth_pct

\* The first chronological period of the year has a row with previous = null and
\* growth_pct = null whenever it has a row.
FirstPeriodIsNull ==
    \A i \in DOMAIN result.results :
        PreviousKey(RowPeriods[i]) = {} =>
            result.results[i].previous = None /\ result.results[i].growth_pct = None

OneNullRow ==
    /\ Len(result.results) = 1
    /\ result.results[1].previous = None
    /\ result.results[1].growth_pct = None

\* C9 as stated: every growth request succeeds; on a year with data the row of
\* the first period has previous = null and growth_pct = null; on a year with
\* exactly one period of data the result is one such row and the average is null.
C9_SinglePeriodOneNullRow ==
    request.metric_type = "growth" =>
        /\ result.status = "success"
        /\ FirstPeriodIsNull
        /\ Cardinality(StoredKeys(request.year)) = 1 =>
              OneNullRow /\ result.summary.average_growth_pct = None

\* C9 (amended): as stated, except that on a year with exactly one period of
\* data the result is that one row only when the request has no period filter or
\* filters on that period; filtered on another period it has no row. The average
\* is null in both cases.
C9_SinglePeriodUnlessFilteredOut ==
    request.metric_type = "growth" =>
        /\ result.status = "success"
        /\ FirstPeriodIsNull
        /\ Cardinality(StoredKeys(request.year)) = 1 =>
              /\ result.summary.average_growth_pct = None
              /\ IF Filtered /\ request.period_number[1] \notin StoredKeys(request.year)
                 THEN result.results = <<>>
                 ELSE OneNullRow /\ RowPeriods[1] \in StoredKeys(request.year)

\* C9 witness: a year with exactly one period of data, holding a non-zero sum,
\* reported as one row with previous = null and growth_pct = null.
C9_Witness ==
    /\ Succeeded("growth")
    /\ Cardinality(StoredKeys(request.year)) = 1
    /\ OneNullRow
    /\ result.results[1].current # 0
    /\ result.summary.average_growth_pct = None

\* The rows of the requested year in the requested period of a
\* category_breakdown request that carries a period number.
BreakdownRows ==
    {r \in BagToSet(sales) :
        /\ r.year = request.year
        /\ PeriodKey(r.month, request.period) = request.period_number[1]}

\* The unrounded total of the requested period.
BreakdownTotal == SumAmounts(BreakdownRows, sales)

\* The sum of percentage_of_total over the returned rows.
PercentageSum ==
    SumSeq([i \in DOMAIN result.results |-> result.results[i].percentage_of_total])

\* C11: every category_breakdown with a period number succeeds (no division
\* fault); it returns one row per category with rows in the period; when the
\* period total is greater than 0 the percentages sum to 100 within half a
\* hundredth per row, and when the total is 0 every percentage is 0.
C11_PercentagesSumTo100 ==
    (request.metric_type = "category_breakdown" /\ Filtered) =>
        /\ result.status = "success"
        /\ Len(result.results) = Cardinality({r.category : r \in BreakdownRows})
        /\ BreakdownTotal > 0 => 2 * Abs(PercentageSum - 10000) <= Len(result.results)
        /\ BreakdownTotal = 0 =>
              \A i \in DOMAIN result.results : result.results[i].percentage_of_total = 0

\* C11 witness: three categories of equal non-zero sums, whose percentages
\* (33.33 each) sum to 99.99.
C11_Witness ==
    /\ Succeeded("category_breakdown")
    /\ Len(result.results) = 3
    /\ BreakdownTotal > 0
    /\ PercentageSum = 9999

\* C11 witness of the zero branch: rows exist in the period and their total is 0.
C11_WitnessZeroTotal ==
    /\ Succeeded("category_breakdown")
    /\ Len(result.results) >= 2
    /\ BreakdownTotal = 0
    /\ PercentageSum = 0

\* The years with at least one row in the table.
YearsPresent == {r.year : r \in BagToSet(sales)}

\* C12: in every category_breakdown result the year is in data_available_for
\* exactly when it has rows in the table and at least one row in the requested
\* period; otherwise it is in data_missing_for, note is set, and the result is
\* still a success, with no rows.
C12_AvailableOnlyWithPeriodRows ==
    (request.metric_type = "category_breakdown" /\ Filtered) =>
        /\ result.status = "success"
        /\ IF request.year \in YearsPresent /\ BreakdownRows # {}
           THEN /\ result.data_available_for = <<request.year>>
                /\ result.data_missing_for = <<>>
                /\ result.note = None
                /\ result.results # <<>>
           ELSE /\ result.data_available_for = <<>>
                /\ result.data_missing_for = <<request.year>>
                /\ result.note # None
                /\ result.results = <<>>

\* C12 witness: the year has rows, none of them in the requested period, and is
\* reported missing.
C12_Witness ==
    /\ Succeeded("category_breakdown")
    /\ request.year \in YearsPresent
    /\ BreakdownRows = {}
    /\ result.data_missing_for = <<request.year>>
    /\ result.results = <<>>

\* The years a successful request asked about.
YearsRequested ==
    IF request.metric_type = "yoy_comparison"
    THEN {request.year, CompareYear}
    ELSE {request.year}

\* C13: in every successful forecast_comparison, yoy_comparison and growth
\* result each requested year is in exactly one of data_available_for and
\* data_missing_for, in data_missing_for exactly when the table has no row of
\* that year (whatever the other year and the forecast map are), the lists hold
\* requested years only, and note is non-null exactly when data_missing_for is
\* non-empty.
C13_EachYearReportedOnItsOwn ==
    (\/ Succeeded("forecast_comparison")
     \/ Succeeded("yoy_comparison")
     \/ Succeeded("growth")) =>
        /\ \A y \in YearsRequested :
              /\ y \in Range(result.data_missing_for) <=> y \notin YearsPresent
              /\ y \in Range(result.data_available_for) <=> y \in YearsPresent
        /\ Range(result.data_available_for) \cup Range(result.data_missing_for)
              = YearsRequested
        /\ result.note # None <=> result.data_missing_for # <<>>

\* C13 witness: a yoy_comparison whose year has rows and whose compare year has
\* none: one year in each list.
C13_Witness ==
    /\ Succeeded("yoy_comparison")
    /\ request.year \in YearsPresent
    /\ CompareYear \notin YearsPresent
    /\ result.data_available_for = <<request.year>>
    /\ result.data_missing_for = <<CompareYear>>
    /\ result.note # None

\* A forecast_comparison with forecast values for a year that has no row reports
\* the year missing.
C13_WitnessForecastOnly ==
    /\ Succeeded("forecast_comparison")
    /\ request.year \notin YearsPresent
    /\ \E i \in DOMAIN result.results : result.results[i].forecast # 0
    /\ result.data_missing_for = <<request.year>>

\* The request lacks the parameter its metric kind requires: it is None, or a
\* value the code takes as absent (an empty forecast map, a 0).
LacksRequired ==
    \/ /\ request.metric_type = "forecast_comparison"
       /\ (request.forecast_values = None \/ DOMAIN request.forecast_values[1] = {})
    \/ request.metric_type = "yoy_comparison" /\ ~Truthy(request.compare_year)
    \/ request.metric_type = "category_breakdown" /\ ~Truthy(request.period_number)

\* The fields every success envelope has.
SuccessFields ==
    {"status", "period", "results", "summary",
     "data_available_for", "data_missing_for", "note"}

\* C14: a request that lacks its required parameter returns status error; an
\* error envelope has the fields status and message and no other; every
\* returned envelope is either that or a success envelope with all its fields.
C14_ErrorEnvelopeOnly ==
    request # NoRequest =>
        /\ LacksRequired => result.status = "error"
        /\ result.status \in {"success", "error"}
        /\ result.status = "error" => DOMAIN result = {"status", "message"}
        /\ result.status = "success" => SuccessFields \subseteq DOMAIN result

\* C14 witness: a category_breakdown without period_number, on a year that has
\* rows, returns the error envelope.
C14_Witness ==
    /\ request.metric_type = "category_breakdown"
    /\ request.period_number = None
    /\ request.year \in YearsPresent
    /\ result.status = "error"
    /\ DOMAIN result = {"status", "message"}

\* C15: a call with a metric_type outside the four kinds returns the error
\* envelope (status error and a message, nothing raised), its message names
\* the four accepted kinds, and no calculator runs: the call reads nothing from
\* the store.
C15_UnknownKindRejected ==
    (request # NoRequest /\ request.metric_type \notin MetricTypes) =>
        /\ result.status = "error"
        /\ DOMAIN result = {"status", "message"}
        /\ \E e \in result.message :
              /\ e.field = "metric_type"
              /\ e.expected = {"forecast_comparison", "yoy_comparison",
                               "growth", "category_breakdown"}
        /\ reads = <<>>

\* C15 witness: a call of kind "profit" on a table with rows of the requested
\* year is rejected.
C15_Witness ==
    /\ request.metric_type = "profit"
    /\ request.year \in YearsPresent
    /\ result.status = "error"
    /\ reads = <<>>

\* The call in progress has returned.
HasReturned == request # NoRequest /\ result # NoResult

\* C16: whatever the arguments and the store, a call that has ended has
\* returned an envelope of status success or error; arguments that cannot be
\* coerced give status error; a read that fails is the last read of the call
\* (it is not attempted again and nothing is read after it) and the call
\* returns status error; a success envelope comes only from a call all of
\* whose reads succeeded.
C16_NoFaultEscapes ==
    /\ HasReturned => result.status \in {"success", "error"}
    /\ (HasReturned /\ request.invalid # {}) => result.status = "error"
    /\ \A i \in DOMAIN reads :
          ~reads[i].succeeded => (i = Len(reads) /\ result.status = "error")
    /\ Len(reads) <= ReadsNeeded(request)
    /\ result.status = "success" =>
          /\ Len(reads) = ReadsNeeded(request)
          /\ \A i \in DOMAIN reads : reads[i].succeeded

\* C16 witness: a yoy_comparison whose first read succeeded on a table with
\* rows and whose second read found the table missing: status error after two
\* reads.
C16_Witness ==
    /\ request.metric_type = "yoy_comparison"
    /\ Len(reads) = 2
    /\ reads[1].succeeded
    /\ reads[1].seen # EmptyBag
    /\ ~reads[2].succeeded
    /\ result.status = "error"

\* A call with a year that cannot be coerced returns status error without a read.
C16_WitnessNonCoercible ==
    /\ request.invalid = {"year"}
    /\ request.metric_type = "growth"
    /\ result.status = "error"
    /\ reads = <<>>

\* The envelope the request gets when every read of the call sees the table db.
ResultOn(db) == calculate_metrics(<<db, db, db>>, request, RowOrder(request, <<db>>))

\* The result has a row with data of year y.
ReportsDataFor(y) ==
    IF request.metric_type = "forecast_comparison"
    THEN y = request.year /\ \E i \in DOMAIN result.results : result.results[i].actual # 0
    ELSE IF request.metric_type = "yoy_comparison"
    THEN \E i \in DOMAIN result.results :
            \/ y = request.year /\ result.results[i].current_year_value # 0
            \/ y = request.compare_year[1] /\ result.results[i].compare_year_value # 0
    ELSE y = request.year /\ result.results # <<>>

\* A result never has rows with data for a year it lists as missing.
NoRowsForMissingYear ==
    (HasReturned /\ result.status = "success") =>
        \A i \in DOMAIN result.data_missing_for :
            ~ReportsDataFor(result.data_missing_for[i])

\* C17: every success result is what the request gives on one single state of
\* the store, one of the states the reads of the call saw, also when another
\* process changed the store between the reads; so it has no rows with data
\* for a year it lists as missing.
C17_ResultFromOneStoreState ==
    /\ (HasReturned /\ result.status = "success") =>
           \E i \in DOMAIN reads : result = ResultOn(reads[i].seen)
    /\ NoRowsForMissingYear

RowsOfYear(y) == {r \in BagToSet(sales) : r.year = y}

\* The months of year y with at least one row.
MonthsWithRows(y) == {r.month : r \in RowsOfYear(y)}

\* The sum of the amounts of the rows of year y in month m.
MonthSum(y, m) == SumAmounts({r \in RowsOfYear(y) : r.month = m}, sales)

\* The quarter of a month of the calendar.
QuarterOf(m) == (m - 1) \div 3 + 1

RECURSIVE SumOfMonths(_, _)
\* The sum of the monthly sums of year y over the months in M.
SumOfMonths(y, M) ==
    IF M = {} THEN 0
    ELSE LET m == CHOOSE x \in M : TRUE
         IN  MonthSum(y, m) + SumOfMonths(y, M \ {m})

\* C19: for the table as it is and every year, the monthly map has a key
\* exactly for the months with at least one row of the year, with the sum of
\* their amounts; the quarterly map has a key exactly for the quarters
\* (m - 1) div 3 + 1 of those months, all within 1..4, each with the sum of the
\* monthly values of its months; an unfiltered growth call reports exactly
\* those keys with those sums.
C19_SumsByPeriod ==
    /\ \A y \in Years :
          LET monthly   == get_sales_by_period(sales, y, "monthly")
              quarterly == get_sales_by_period(sales, y, "quarterly")
          IN  /\ DOMAIN monthly = MonthsWithRows(y)
              /\ \A m \in DOMAIN monthly : monthly[m] = MonthSum(y, m)
              /\ DOMAIN quarterly = {QuarterOf(m) : m \in MonthsWithRows(y)}
              /\ DOMAIN quarterly \subseteq 1..4
              /\ \A q \in DOMAIN quarterly :
                    quarterly[q] =
                        SumOfMonths(y, {m \in MonthsWithRows(y) : QuarterOf(m) = q})
    /\ (Succeeded("growth") /\ ~Filtered) =>
          /\ Range(RowPeriods) =
                 (IF request.period = "quarterly"
                  THEN {QuarterOf(m) : m \in MonthsWithRows(request.year)}
                  ELSE MonthsWithRows(request.year))
          /\ \A i \in DOMAIN result.results :
                result.results[i].current =
                    Round2(SumOfMonths(request.year,
                              {m \in MonthsWithRows(request.year) :
                                  RowPeriods[i] = (IF request.period = "quarterly"
                                                   THEN QuarterOf(m) ELSE m)}))

\* C19 witness: a quarterly growth over a year with one row in month 3 and one
\* in month 4 reports quarters 1 and 2, while the other year has a row too.
C19_Witness ==
    /\ Succeeded("growth")
    /\ ~Filtered
    /\ request.period = "quarterly"
    /\ {3, 4} \subseteq MonthsWithRows(request.year)
    /\ RowsOfYear(request.year) # BagToSet(sales)
    /\ RowPeriods = <<1, 2>>
    /\ result.results[2].current = 150000

\* The call in progress carries a request that validation rejects: an unknown
\* kind, a raw value that cannot be coerced, or a required parameter absent.
RequestRejected ==
    /\ request # NoRequest
    /\ \/ request.metric_type \notin
             {"forecast_comparison", "yoy_comparison", "growth", "category_breakdown"}
       \/ request.invalid # {}
       \/ LacksRequired

\* C20: a call whose request is rejected has returned status error without any
\* store read, and a call that has made a store read carries a request that
\* passed every validation; no read is ever added to a rejected request.
C20_ValidationBeforeReads ==
    /\ RequestRejected => (reads = <<>> /\ result.status = "error")
    /\ reads # <<>> => ~RequestRejected

\* C20 witness: a yoy_comparison without compare_year, on a readable table with
\* rows of the requested year, has returned status error and read nothing.
C20_Witness ==
    /\ request.metric_type = "yoy_comparison"
    /\ request.compare_year = None
    /\ table = "ok"
    /\ request.year \in YearsPresent
    /\ result.status = "error"
    /\ reads = <<>>

\* C21: when a call of calculate_metrics or query_sales has returned, every
\* connection it opened is closed, also when a query raised and the call
\* returned status error.
C21_ConnectionsClosedOnReturn ==
    HasReturned => \A i \in DOMAIN reads : reads[i].connection = "closed"


\* ------------------------------------------------------------------------ C22

\* chunk_text is running or has ended.
Chunking == chunking.pc # "idle"

\* 0 <= overlap < chunk_size
OverlapBelowSize ==
    /\ 0 <= chunking.overlap
    /\ chunking.overlap < chunking.chunk_size

\* Position p lies in the window [start, start + chunk_size) of an iteration.
InSomeWindow(p) ==
    \E w \in chunking.windows : w <= p /\ p < w + chunking.chunk_size

\* An iteration of the loop has just been made.
Iterated ==
    /\ chunking.pc = "loop"
    /\ chunking'.pc = "loop"
    /\ chunking'.iterations = chunking.iterations + 1

\* With 0 <= overlap < chunk_size the loop is never held back by the number
\* of iterations followed, and ends with every position of the text in a window.
C22_EndsCovered ==
    (Chunking /\ OverlapBelowSize) =>
        /\ chunking.iterations <= Len(chunking.text)
        /\ chunking.pc = "done" =>
               \A p \in 0..(Len(chunking.text) - 1) : InSomeWindow(p)

\* With overlap >= chunk_size and a non-empty text the loop test holds before
\* every iteration and the loop is never left.
C22_NeverEnds ==
    (Chunking /\ ~OverlapBelowSize /\ chunking.text # <<>>) =>
        /\ chunking.pc = "loop"
        /\ chunking.start <= 0
        /\ chunking.start < Len(chunking.text)

\* C22: chunk_text(text, chunk_size, overlap) terminates for every text and
\* every pair of parameters with 0 <= overlap < chunk_size, the start index
\* strictly increases on every iteration, and every character position of
\* the text lies inside the window [start, start + chunk_size) of at least one
\* iteration; with overlap >= chunk_size and a non-empty text the loop does
\* not terminate.
C22_ChunkTextTerminatesIffOverlapBelowSize ==
    /\ [](C22_EndsCovered /\ C22_NeverEnds)
    /\ [][(Iterated /\ OverlapBelowSize) =>
              chunking'.start > chunking.start]_vars
    /\ ((chunking.pc = "loop" /\ OverlapBelowSize) ~> (chunking.pc = "done"))

\* Witness: a text of MaxTextLen characters cut with chunk_size 3 and overlap
\* 2 has ended after several iterations, every position in a window.
C22_Witness ==
    /\ chunking.pc = "done"
    /\ Len(chunking.text) = MaxTextLen
    /\ chunking.chunk_size = 3
    /\ chunking.overlap = 2
    /\ chunking.iterations >= 2
    /\ Len(chunking.chunks) >= 2
    /\ \A p \in 0..(Len(chunking.text) - 1) : InSomeWindow(p)

\* Witness: with overlap >= chunk_size > 0 the loop is still running after
\* MaxIterations iterations on a non-empty text, start having moved backwards.
C22_WitnessNeverEnds ==
    /\ chunking.pc = "loop"
    /\ chunking.text # <<>>
    /\ chunking.chunk_size > 0
    /\ chunking.overlap > chunking.chunk_size
    /\ chunking.iterations = MaxIterations
    /\ chunking.start < 0

====
